---- MODULE Spec2Model ----
(***************************************************************************)
(* A model of pagerank/pagerank.py: transition_model, sample_pagerank and  *)
(* iterate_pagerank, called in any sequence on one corpus.                 *)
(*                                                                         *)
(* Python floats are modelled as exact rationals <<numerator, denominator>>*)
(* in lowest terms with a positive denominator; a dict is a function whose *)
(* DOMAIN is the dict's key set; a Python set is a set.                    *)
(***************************************************************************)
EXTENDS Integers, Sequences, FiniteSets, TLC

(***************************************************************************)
(* Bounds of the model.                                                    *)
(***************************************************************************)
\* largest n passed to sample_pagerank
MaxSamples == 3
\* number of sweeps the claimed sweep cap is instantiated with
SweepCap == 4

\* smallest n passed to sample_pagerank (n < 1 is the invalid range)
SampleCounts == (0 - 1) .. MaxSamples

\* page names; a corpus has the first 0, 1, 2 or 3 of them as its keys
PageSets == { {}, {"a"}, {"a", "b"}, {"a", "b", "c"} }

(***************************************************************************)
(* Exact rational arithmetic.                                              *)
(***************************************************************************)
RECURSIVE GCD(_, _)
GCD(x, y) == IF y = 0 THEN x ELSE GCD(y, x % y)

Abs(x) == IF x < 0 THEN 0 - x ELSE x

Norm(num, den) ==
    IF num = 0 THEN <<0, 1>>
    ELSE LET g == GCD(Abs(num), den) IN <<num \div g, den \div g>>

Zero == <<0, 1>>
One == <<1, 1>>
Int2R(k) == <<k, 1>>

RAdd(x, y) ==
    LET g == GCD(x[2], y[2])
        l == (x[2] \div g) * y[2]
    IN  Norm(x[1] * (l \div x[2]) + y[1] * (l \div y[2]), l)

RNeg(x) == <<0 - x[1], x[2]>>
RSub(x, y) == RAdd(x, RNeg(y))

RMul(x, y) ==
    IF x[1] = 0 \/ y[1] = 0 THEN Zero
    ELSE LET g1 == GCD(Abs(x[1]), y[2])
             g2 == GCD(Abs(y[1]), x[2])
         IN  <<(x[1] \div g1) * (y[1] \div g2), (x[2] \div g2) * (y[2] \div g1)>>

\* x / y for y > 0
RDiv(x, y) == RMul(x, <<y[2], y[1]>>)

RAbs(x) == <<Abs(x[1]), x[2]>>
RGt(x, y) == x[1] * y[2] > y[1] * x[2]

RECURSIVE RSumOver(_, _)
RSumOver(S, f) ==
    IF S = {} THEN Zero
    ELSE LET e == CHOOSE e \in S : TRUE
         IN  RAdd(f[e], RSumOver(S \ {e}, f))

\* sum of the values of a dict
RSum(f) == RSumOver(DOMAIN f, f)

(***************************************************************************)
(* Dicts.                                                                  *)
(***************************************************************************)
EmptyDict == [x \in {} |-> Zero]

\* dict[key] = value, inserting the key when absent
Put(dict, key, value) ==
    [k \in DOMAIN dict \cup {key} |-> IF k = key THEN value ELSE dict[k]]

\* the keys of a dict in its iteration order
RECURSIVE KeySeq(_)
KeySeq(S) ==
    IF S = {} THEN <<>>
    ELSE LET e == CHOOSE e \in S : TRUE
         IN  <<e>> \o KeySeq(S \ {e})

(***************************************************************************)
(* The inputs.                                                             *)
(***************************************************************************)
\* what crawl returns: every page maps to a set of other pages of the corpus
Corpora ==
    UNION { { c \in [V -> SUBSET V] : \A p \in V : p \notin c[p] } : V \in PageSets }

\* damping factors passed to transition_model and sample_pagerank
Dampings == { <<1, 4>>, <<1, 2>>, <<3, 4>>, <<17, 20>> }
\* damping factors passed to iterate_pagerank
IterDampings == { <<1, 4>>, <<1, 2>> }

\* the convergence threshold 0.001
Tolerance == <<1, 1000>>

NoPage == "none"
NoOutcome == [kind |-> "none", value |-> EmptyDict]

VARIABLES
    corpus,          \* the graph: page -> set of pages it links to
    corpus0,         \* the graph as it was constructed
    op,              \* the function being called, or the one that last ended
    pc,              \* the position in it
    damping_factor,  \* its damping_factor argument
    n,               \* sample_pagerank's n
    i,               \* sample_pagerank's loop index
    start,           \* the starting page sample_pagerank chose
    page,            \* sample_pagerank's current page / transition_model's argument
    pagerank,        \* sample_pagerank's tally
    d,               \* iterate_pagerank's rank vector
    d_copy,          \* iterate_pagerank's snapshot of it
    d_diff,          \* iterate_pagerank's per-page change
    todo,            \* pages the running sweep has not reached yet
    not_convergent,  \* iterate_pagerank's loop flag
    sweeps,          \* number of sweeps iterate_pagerank has completed
    outcome          \* how the call ended: a returned value or a raised error

vars == <<corpus, corpus0, op, pc, damping_factor, n, i, start, page, pagerank,
          d, d_copy, d_diff, todo, not_convergent, sweeps, outcome>>

sampleLocals == <<n, i, start, pagerank>>
iterLocals == <<d, d_copy, d_diff, todo, not_convergent, sweeps>>

Returned(v) == [kind |-> "return", value |-> v]
Raised(e) == [kind |-> e, value |-> EmptyDict]

(***************************************************************************)
(* transition_model                                                        *)
(***************************************************************************)
\* `links == {}`: links is a set and {} is the empty dict; in Python a set
\* never equals a dict, so the comparison is False for every set.
EqualsEmptyDict(links) == FALSE

\* a transition_model that consumed the links it iterates over
CorpusDrained(c, pg) == [c EXCEPT ![pg] = {}]

\* the corpus after a call transition_model(c, pg, _): `links` aliases c[pg]
\* and `d` is a copy, and neither is written
CorpusAfterTransitionModel(c, pg) == c

LinkShare(df, links) == RDiv(df, Int2R(Cardinality(links)))

TeleportShare(c, df) == RDiv(RSub(One, df), Int2R(Cardinality(DOMAIN c)))

transition_model(c, pg, df) ==
    LET links == c[pg]
        pages == Cardinality(DOMAIN c)
    IN  IF EqualsEmptyDict(links)
        THEN c
        ELSE [p \in DOMAIN c |->
                IF p \in links
                THEN RAdd(LinkShare(df, links), TeleportShare(c, df))
                ELSE TeleportShare(c, df)]

\* a direct call transition_model(corpus, pg, df) by a caller
TransitionModelCall ==
    /\ pc \in {"idle", "done"}
    /\ \E pg \in DOMAIN corpus, df \in Dampings :
          /\ op' = "transition_model"
          /\ pc' = "done"
          /\ page' = pg
          /\ damping_factor' = df
          /\ outcome' = Returned(transition_model(corpus, pg, df))
          /\ corpus' = CorpusAfterTransitionModel(corpus, pg)
    /\ n' = 0 /\ i' = 0 /\ start' = NoPage /\ pagerank' = EmptyDict
    /\ d' = EmptyDict /\ d_copy' = EmptyDict /\ d_diff' = EmptyDict
    /\ todo' = {} /\ not_convergent' = FALSE /\ sweeps' = 0
    /\ UNCHANGED corpus0

(***************************************************************************)
(* sample_pagerank                                                         *)
(***************************************************************************)
\* pages random.choices can return: those of positive weight
Choices(prob) == { p \in DOMAIN prob : RGt(prob[p], Zero) }

\* lines 102-105
Tally(counts, pg) ==
    IF pg \in DOMAIN counts
    THEN [counts EXCEPT ![pg] = RAdd(counts[pg], One)]
    ELSE Put(counts, pg, One)

\* range(n - 1) has another index after k iterations
RangeHasNext(k, total) == k < total - 1

\* lines 91-94: the tally is created and the starting page chosen
SampleCall ==
    /\ pc \in {"idle", "done"}
    /\ op' = "sample_pagerank"
    /\ \E df \in Dampings, cnt \in SampleCounts :
          /\ damping_factor' = df
          /\ n' = cnt
    /\ pagerank' = EmptyDict
    /\ i' = 0
    /\ IF DOMAIN corpus = {}
       THEN \* random.choice of an empty list raises IndexError
            /\ pc' = "done"
            /\ outcome' = Raised("IndexError")
            /\ start' = NoPage /\ page' = NoPage
       ELSE /\ pc' = "loop"
            /\ outcome' = NoOutcome
            /\ \E pg \in DOMAIN corpus : start' = pg /\ page' = pg
    /\ d' = EmptyDict /\ d_copy' = EmptyDict /\ d_diff' = EmptyDict
    /\ todo' = {} /\ not_convergent' = FALSE /\ sweeps' = 0
    /\ UNCHANGED <<corpus, corpus0>>

\* lines 97-105: one iteration of the sampling loop
SampleStep ==
    /\ op = "sample_pagerank" /\ pc = "loop"
    /\ RangeHasNext(i, n)
    /\ IF EqualsEmptyDict(corpus[page])
       THEN \* the corpus itself came back: its values are no weights
            /\ pc' = "done"
            /\ outcome' = Raised("TypeError")
            /\ UNCHANGED <<page, pagerank, i>>
       ELSE /\ \E nxt \in Choices(transition_model(corpus, page, damping_factor)) :
                  /\ page' = nxt
                  /\ pagerank' = Tally(pagerank, nxt)
            /\ i' = i + 1
            /\ UNCHANGED <<pc, outcome>>
    /\ corpus' = CorpusAfterTransitionModel(corpus, page)
    /\ UNCHANGED <<corpus0, op, damping_factor, n, start>>
    /\ UNCHANGED iterLocals

\* lines 108-111: the counts are divided by n and returned
SampleReturn ==
    /\ op = "sample_pagerank" /\ pc = "loop"
    /\ ~RangeHasNext(i, n)
    /\ pagerank' = [p \in DOMAIN pagerank |-> RDiv(pagerank[p], Int2R(n))]
    /\ outcome' = Returned(pagerank')
    /\ pc' = "done"
    /\ UNCHANGED <<corpus, corpus0, op, damping_factor, n, i, start, page>>
    /\ UNCHANGED iterLocals

(***************************************************************************)
(* iterate_pagerank                                                        *)
(***************************************************************************)
\* lines 134-140: prob after the first k items of corpus.items(), for the
\* page pg, reading the ranks from r
RECURSIVE ProbAfter(_, _, _, _)
ProbAfter(c, r, pg, k) ==
    IF k = 0 THEN Zero
    ELSE LET prev == ProbAfter(c, r, pg, k - 1)
             page_i == KeySeq(DOMAIN c)[k]
             pages == c[page_i]
         IN  IF pg \in pages
             THEN RAdd(prev, RDiv(r[page_i], Int2R(Cardinality(pages))))
             ELSE IF Cardinality(pages) = 0
                  THEN RAdd(prev, RDiv(One, Int2R(Cardinality(DOMAIN c))))
                  ELSE prev

\* line 141 on the prob of lines 134-140
RankFrom(c, r, pg, df) ==
    RAdd(RDiv(RSub(One, df), Int2R(Cardinality(DOMAIN c))),
         RMul(df, ProbAfter(c, r, pg, Cardinality(DOMAIN c))))

\* an update that reads the vector being written instead of the snapshot
UpdatedRankInPlace(c, dcur, dsnap, pg, df) == RankFrom(c, dcur, pg, df)

\* the value line 141 stores in d[pg]: line 138 reads d_copy, never d
UpdatedRank(c, dcur, dsnap, pg, df) == RankFrom(c, dsnap, pg, df)

\* a convergence test that goes on only while every page still moves
AllAboveTolerance(diff) == \A p \in DOMAIN diff : RGt(diff[p], Tolerance)

\* lines 143-146: not_convergent after the sweep
AnyAboveTolerance(diff) == \E p \in DOMAIN diff : RGt(diff[p], Tolerance)

\* lines 123-129
IterateCall ==
    /\ pc \in {"idle", "done"}
    /\ op' = "iterate_pagerank"
    /\ \E df \in IterDampings : damping_factor' = df
    /\ d' = [p \in DOMAIN corpus |-> RDiv(One, Int2R(Cardinality(DOMAIN corpus)))]
    /\ not_convergent' = TRUE
    /\ pc' = "while"
    /\ sweeps' = 0
    /\ d_copy' = EmptyDict /\ d_diff' = EmptyDict /\ todo' = {}
    /\ outcome' = NoOutcome
    /\ n' = 0 /\ i' = 0 /\ start' = NoPage /\ pagerank' = EmptyDict /\ page' = NoPage
    /\ UNCHANGED <<corpus, corpus0>>

\* lines 130-132: the loop test passes, the snapshot is taken
SweepBegin ==
    /\ op = "iterate_pagerank" /\ pc = "while"
    /\ not_convergent
    /\ d_copy' = d
    /\ d_diff' = EmptyDict
    /\ todo' = DOMAIN corpus
    /\ pc' = "for"
    /\ UNCHANGED <<corpus, corpus0, op, damping_factor, page, d, not_convergent,
                   sweeps, outcome>>
    /\ UNCHANGED sampleLocals

\* lines 133-142: the body of the for loop, for one page
UpdatePage ==
    /\ op = "iterate_pagerank" /\ pc = "for"
    /\ \E pg \in todo :
          /\ d' = [d EXCEPT ![pg] = UpdatedRank(corpus, d, d_copy, pg, damping_factor)]
          /\ d_diff' = Put(d_diff, pg, RAbs(RSub(d_copy[pg], d'[pg])))
          /\ todo' = todo \ {pg}
    /\ UNCHANGED <<corpus, corpus0, op, pc, damping_factor, page, d_copy,
                   not_convergent, sweeps, outcome>>
    /\ UNCHANGED sampleLocals

\* lines 143-146: the for loop is over, the convergence test
SweepEnd ==
    /\ op = "iterate_pagerank" /\ pc = "for"
    /\ todo = {}
    /\ not_convergent' = AnyAboveTolerance(d_diff)
    /\ sweeps' = sweeps + 1
    /\ pc' = "while"
    /\ UNCHANGED <<corpus, corpus0, op, damping_factor, page, d, d_copy, d_diff,
                   todo, outcome>>
    /\ UNCHANGED sampleLocals

\* lines 148-155: the loop test fails, the vector is normalised and returned
IterateReturn ==
    /\ op = "iterate_pagerank" /\ pc = "while"
    /\ ~not_convergent
    /\ d' = [k \in DOMAIN d |-> RDiv(d[k], RSum(d))]
    /\ outcome' = Returned(d')
    /\ pc' = "done"
    /\ UNCHANGED <<corpus, corpus0, op, damping_factor, page, d_copy, d_diff,
                   todo, not_convergent, sweeps>>
    /\ UNCHANGED sampleLocals

(***************************************************************************)
(* The specification.                                                      *)
(***************************************************************************)
Init ==
    /\ corpus \in Corpora
    /\ corpus0 = corpus
    /\ op = "none"
    /\ pc = "idle"
    /\ damping_factor = Zero
    /\ n = 0 /\ i = 0 /\ start = NoPage /\ page = NoPage
    /\ pagerank = EmptyDict
    /\ d = EmptyDict /\ d_copy = EmptyDict /\ d_diff = EmptyDict
    /\ todo = {}
    /\ not_convergent = FALSE
    /\ sweeps = 0
    /\ outcome = NoOutcome

Next ==
    \/ TransitionModelCall
    \/ SampleCall
    \/ SampleStep
    \/ SampleReturn
    \/ IterateCall
    \/ SweepBegin
    \/ UpdatePage
    \/ SweepEnd
    \/ IterateReturn

Spec == Init /\ [][Next]_vars

(***************************************************************************)
(* Vocabulary of the claims.                                               *)
(***************************************************************************)
Pages == DOMAIN corpus
NumPages == Cardinality(DOMAIN corpus)

SampleReturned ==
    op = "sample_pagerank" /\ pc = "done" /\ outcome.kind = "return"

TransitionReturned ==
    op = "transition_model" /\ pc = "done" /\ outcome.kind = "return"

Failed == outcome.kind \notin {"none", "return"}

\* sum over the pages i of S of r[i] / den(i)
RECURSIVE ShareSum(_, _, _, _)
ShareSum(S, r, c, perPage) ==
    IF S = {} THEN Zero
    ELSE LET e == CHOOSE e \in S : TRUE
             den == IF perPage THEN Cardinality(c[e]) ELSE Cardinality(DOMAIN c)
         IN  RAdd(RDiv(r[e], Int2R(den)), ShareSum(S \ {e}, r, c, perPage))

Linking(c, p) == { q \in DOMAIN c : p \in c[q] }
Dangling(c) == { q \in DOMAIN c : c[q] = {} }

\* the recurrence of the PageRank formula: a dangling page spreads its own
\* rank over all pages
FormulaRank(c, r, p, df) ==
    RAdd(RDiv(RSub(One, df), Int2R(Cardinality(DOMAIN c))),
         RMul(df, RAdd(ShareSum(Linking(c, p), r, c, TRUE),
                       ShareSum(Dangling(c), r, c, FALSE))))

\* the same with every dangling page counted as 1 / |V|
SnapshotRank(c, r, p, df) ==
    RAdd(RDiv(RSub(One, df), Int2R(Cardinality(DOMAIN c))),
         RMul(df, RAdd(ShareSum(Linking(c, p), r, c, TRUE),
                       <<Cardinality(Dangling(c)), Cardinality(DOMAIN c)>>)))

Change(p) == RAbs(RSub(d_copy[p], d[p]))

(***************************************************************************)
(* The claims.                                                             *)
(***************************************************************************)

\* C1: when sample_pagerank returns for a graph with a node and n >= 1, the
\* returned values sum to exactly 1, and for n = 1 the starting page has
\* value 1 (the start is recorded as visit 1, the counts total n).
C1_SampleSumsToOne ==
    (SampleReturned /\ n >= 1) =>
        /\ RSum(outcome.value) = One
        /\ n = 1 => (start \in DOMAIN outcome.value /\ outcome.value[start] = One)

\* C2: the mapping sample_pagerank returns for n >= 1 has a key for every
\* page of the corpus and no other.
C2_SampleKeysAreNodes ==
    (SampleReturned /\ n >= 1) => DOMAIN outcome.value = Pages

\* C3: transition_model called on a page without links returns 1/|V| for
\* every page of the corpus.
C3_DanglingUniform ==
    (TransitionReturned /\ corpus[page] = {}) =>
        outcome.value = [v \in Pages |-> <<1, NumPages>>]

\* C4: the values transition_model returns are strictly positive for every
\* page of the corpus and sum to 1.
C4_TransitionIsDistribution ==
    TransitionReturned =>
        /\ DOMAIN outcome.value = Pages
        /\ \A v \in Pages : RGt(outcome.value[v], Zero)
        /\ RSum(outcome.value) = One

\* C5: during a sweep of iterate_pagerank every page already updated holds
\* (1-d)/|V| + d * (sum over linking pages i of rank(i)/|links(i)|)
\*           + d * (sum over dangling pages i of rank(i)/|V|),
\* rank being the snapshot of the previous sweep.
C5_SweepFormula ==
    (op = "iterate_pagerank" /\ pc = "for") =>
        \A p \in Pages \ todo : d[p] = FormulaRank(corpus, d_copy, p, damping_factor)

\* C6: sample_pagerank called with n < 1 fails, with no page chosen, no step
\* of the walk taken and nothing returned.
C6_InvalidCountRejected ==
    (op = "sample_pagerank" /\ n < 1) =>
        /\ Failed
        /\ start = NoPage
        /\ i = 0

\* C7: on a corpus without pages sample_pagerank and iterate_pagerank end in
\* an error and return nothing.
C7_EmptyGraphFails ==
    (Pages = {} /\ op \in {"sample_pagerank", "iterate_pagerank"} /\ pc = "done") =>
        Failed

\* C8 as claimed: once SweepCap sweeps are done without convergence,
\* iterate_pagerank stops with a ConvergenceError instead of starting another.
C8_SweepsCapped ==
    [][(op = "iterate_pagerank" /\ pc = "while" /\ not_convergent /\ sweeps >= SweepCap)
         => (pc' = "done" /\ outcome'.kind = "ConvergenceError")]_vars

\* C8 as amended: iterate_pagerank has no sweep cap and no ConvergenceError:
\* however many sweeps are done, it starts another sweep exactly when it has
\* done none yet or some page changed by more than 0.001 in the last one, and
\* otherwise normalises and returns.
C8_LoopsUntilConvergence ==
    [][(op = "iterate_pagerank" /\ pc = "while") =>
         IF sweeps = 0 \/ \E p \in Pages : RGt(Change(p), Tolerance)
         THEN pc' = "for" /\ outcome'.kind = "none"
         ELSE pc' = "done" /\ outcome'.kind = "return"]_vars

\* C8's case: a sweep is running although SweepCap sweeps are already done
C8_Witness ==
    op = "iterate_pagerank" /\ pc = "for" /\ sweeps >= SweepCap

\* C9: within a sweep a page not reached yet still holds its snapshot value,
\* a page already updated holds a value computed from the snapshot alone,
\* and its recorded change is the distance between the two; so after the
\* sweep the vector and the convergence flag are functions of the snapshot,
\* whatever the order of the updates.
C9_SweepReadsSnapshotOnly ==
    /\ (op = "iterate_pagerank" /\ pc = "for") =>
          \A p \in Pages :
             IF p \in todo
             THEN d[p] = d_copy[p] /\ p \notin DOMAIN d_diff
             ELSE /\ d[p] = SnapshotRank(corpus, d_copy, p, damping_factor)
                  /\ d_diff[p] = RAbs(RSub(d_copy[p],
                                    SnapshotRank(corpus, d_copy, p, damping_factor)))
    /\ (op = "iterate_pagerank" /\ pc = "while" /\ sweeps > 0) =>
          /\ d = [p \in Pages |-> SnapshotRank(corpus, d_copy, p, damping_factor)]
          /\ not_convergent =
                (\E p \in Pages :
                    RGt(RAbs(RSub(d_copy[p],
                           SnapshotRank(corpus, d_copy, p, damping_factor))), Tolerance))

\* C9's case: mid-sweep, a page already rewritten to a new value links to a
\* page that is still to be updated
C9_Witness ==
    /\ op = "iterate_pagerank" /\ pc = "for"
    /\ \E p \in Pages \ todo, q \in todo :
          /\ q \in corpus[p]
          /\ d[p] # d_copy[p]

\* C10: whatever calls were made, the corpus has the pages and the links it
\* was constructed with.
C10_GraphReadOnly == corpus = corpus0

\* C10's case: sample_pagerank has returned after calling transition_model
\* on pages with links
C10_Witness ==
    /\ SampleReturned
    /\ i >= 2
    /\ corpus[start] # {}
    /\ corpus[page] # {}

====
